---- MODULE Spec2Model ----
(***************************************************************************)
(* A model of the RAG pipeline with relevance check of                     *)
(* advanced_rag_pipeline_with_relevance_check.ipynb: the two retrievers    *)
(* and their weighted rank fusion (EnsembleRetriever), the two model       *)
(* calls that run side by side (RunnableParallel), the score extraction,   *)
(* the relevance gate (conditional_answer), the structured output          *)
(* (format_json_output) and the user-interface handler                     *)
(* (process_user_input).                                                   *)
(*                                                                         *)
(* Text is a sequence of one-character strings.  A Python float is a       *)
(* record [kind, num, den]: kind "fin" is the exact decimal num/den (den a *)
(* power of ten, no trailing fraction zeros), kind "nan" is NaN, and kind  *)
(* "inf" is +/-Infinity with the sign in num.  Every literal of at most    *)
(* 15 significant digits is held exactly by a double as far as its order   *)
(* against the integer threshold goes, so the decimal is the float.        *)
(***************************************************************************)
EXTENDS Integers, Sequences, FiniteSets, TLC

VARIABLES
    pc,          \* position of the invocation
    question,    \* the user's question
    dense,       \* what the dense (semantic) retriever does when invoked
    sparse,      \* what the sparse (BM25) retriever does when invoked
    judgment,    \* what the llm does on the relevance prompt
    generation,  \* what the llm does on the answer prompt
    denseDocs,   \* documents the dense retriever returned
    sparseDocs,  \* documents the sparse retriever returned
    context,     \* x["context"]: the fused documents, then their text
    relReq,      \* the request the relevance branch sent to the llm
    ansReq,      \* the request the answer branch sent to the llm
    relOut,      \* output of the relevance branch
    ansOut,      \* output of the answer branch
    relPc,       \* position of the relevance branch
    ansPc,       \* position of the answer branch
    order,       \* the branches in the order they completed
    calls,       \* how many times each collaborator was invoked
    branch,      \* the branch conditional_answer took
    result,      \* what rag_chain.invoke returned or raised
    ui,          \* what process_user_input returned or raised
    arg,         \* argument of a function called on its own
    ret          \* its return value

vars == <<pc, question, dense, sparse, judgment, generation, denseDocs,
          sparseDocs, context, relReq, ansReq, relOut, ansOut, relPc, ansPc,
          order, calls, branch, result, ui, arg, ret>>

(***************************************************************************)
(* Bounds of the model.                                                    *)
(***************************************************************************)
\* longest enumerated llm judgment text
MaxLen == 4
\* longest enumerated retriever result when the fusion is called on its own
MaxDocs == 3
\* longest enumerated retriever result in the pipeline
MaxPipeDocs == 1

None == "None"

\* how a call ends: with a value, or with an exception
Returned(value) == [status |-> "returned", value |-> value]
Raised(error) == [status |-> "raised", value |-> error]
Pending == [status |-> "pending", value |-> None]

(***************************************************************************)
(* Text.                                                                   *)
(***************************************************************************)
\* the characters the enumerated judgment texts are made of
Chars == {" ", "\n", "4", "3", ".", "-", "n", "a"}

BoundedText(S, n) == UNION {[1..m -> S] : m \in 0..n}

Digits == {"0", "1", "2", "3", "4", "5", "6", "7", "8", "9"}

DigitVal(c) ==
    CASE c = "0" -> 0 [] c = "1" -> 1 [] c = "2" -> 2 [] c = "3" -> 3
      [] c = "4" -> 4 [] c = "5" -> 5 [] c = "6" -> 6 [] c = "7" -> 7
      [] c = "8" -> 8 [] c = "9" -> 9

DigitChar(d) ==
    CASE d = 0 -> "0" [] d = 1 -> "1" [] d = 2 -> "2" [] d = 3 -> "3"
      [] d = 4 -> "4" [] d = 5 -> "5" [] d = 6 -> "6" [] d = 7 -> "7"
      [] d = 8 -> "8" [] d = 9 -> "9"

\* str.strip() with no argument removes these from both ends
Whitespace == {" ", "\n", "\t", "\r"}

strip(s) ==
    LET keep == {i \in 1..Len(s) : s[i] \notin Whitespace}
    IN  IF keep = {} THEN <<>>
        ELSE LET lo == CHOOSE i \in keep : \A j \in keep : i <= j
                 hi == CHOOSE i \in keep : \A j \in keep : j <= i
             IN  SubSeq(s, lo, hi)

IsBlank(s) == strip(s) = <<>>

\* str.lower() on the letters float() looks at
Lower(c) ==
    CASE c = "N" -> "n" [] c = "A" -> "a" [] c = "I" -> "i" [] c = "F" -> "f"
      [] c = "T" -> "t" [] c = "Y" -> "y" [] OTHER -> c

LowerText(s) == [i \in 1..Len(s) |-> Lower(s[i])]

(***************************************************************************)
(* Python floats.                                                          *)
(***************************************************************************)
RECURSIVE Pow10(_)
Pow10(n) == IF n = 0 THEN 1 ELSE 10 * Pow10(n - 1)

RECURSIVE Normal(_, _)
Normal(num, den) ==
    IF den > 1 /\ num % 10 = 0 THEN Normal(num \div 10, den \div 10)
    ELSE [kind |-> "fin", num |-> num, den |-> den]

Fin(num, den) == Normal(num, den)
NaN == [kind |-> "nan", num |-> 0, den |-> 1]
Inf(sign) == [kind |-> "inf", num |-> sign, den |-> 1]
Zero == Fin(0, 1)

\* a < b on floats: every comparison with NaN is False
Lt(a, b) ==
    CASE a.kind = "nan" \/ b.kind = "nan" -> FALSE
      [] a.kind = "inf" /\ b.kind = "inf" -> a.num < b.num
      [] a.kind = "inf" -> a.num < 0
      [] b.kind = "inf" -> b.num > 0
      [] OTHER -> a.num * b.den < b.num * a.den

\* a >= b on floats
Ge(a, b) ==
    CASE a.kind = "nan" \/ b.kind = "nan" -> FALSE
      [] OTHER -> ~Lt(a, b)

RECURSIVE DigitsVal(_)
DigitsVal(s) ==
    IF s = <<>> THEN 0
    ELSE 10 * DigitsVal(SubSeq(s, 1, Len(s) - 1)) + DigitVal(s[Len(s)])

AllDigits(s) == \A i \in 1..Len(s) : s[i] \in Digits

\* the unsigned text of a float: "inf", "infinity", "nan" in any case, or
\* digits with at most one point and at least one digit.  Exponents and
\* digit-group underscores need characters that no modelled text holds.
Dots(s) == {i \in 1..Len(s) : s[i] = "."}

IsDecimal(s) ==
    \/ s # <<>> /\ AllDigits(s)
    \/ /\ Cardinality(Dots(s)) = 1
       /\ Len(s) > 1
       /\ LET d == CHOOSE i \in Dots(s) : TRUE
          IN  AllDigits(SubSeq(s, 1, d - 1)) /\ AllDigits(SubSeq(s, d + 1, Len(s)))

DecimalVal(s) ==
    IF Dots(s) = {} THEN Fin(DigitsVal(s), 1)
    ELSE LET d    == CHOOSE i \in Dots(s) : TRUE
             int  == SubSeq(s, 1, d - 1)
             frac == SubSeq(s, d + 1, Len(s))
         IN  Fin(DigitsVal(int \o frac), Pow10(Len(frac)))

IsInfWord(s) == LowerText(s) \in {<<"i", "n", "f">>,
                                  <<"i", "n", "f", "i", "n", "i", "t", "y">>}
IsNanWord(s) == LowerText(s) = <<"n", "a", "n">>

Unsigned(s) == IF s # <<>> /\ s[1] \in {"+", "-"} THEN Tail(s) ELSE s
Sign(s) == IF s # <<>> /\ s[1] = "-" THEN -1 ELSE 1

\* float(text) does not raise ValueError
IsFloatText(text) ==
    LET u == Unsigned(strip(text))
    IN  IsDecimal(u) \/ IsInfWord(u) \/ IsNanWord(u)

\* float(text), for a text float() accepts
float(text) ==
    LET s == strip(text)
        u == Unsigned(s)
    IN  CASE IsNanWord(u) -> NaN
          [] IsInfWord(u) -> Inf(Sign(s))
          [] OTHER -> LET v == DecimalVal(u) IN Fin(Sign(s) * v.num, v.den)

(***************************************************************************)
(* extract_relevance_score: float(llm_output.strip()), 0.0 on ValueError.  *)
(***************************************************************************)
extract_relevance_score(llm_output) ==
    IF IsFloatText(strip(llm_output)) THEN float(strip(llm_output)) ELSE Zero

(***************************************************************************)
(* json.dumps, and the json.loads inside PydanticOutputParser.parse_result.*)
(***************************************************************************)
RECURSIVE NatText(_)
NatText(n) == IF n < 10 THEN <<DigitChar(n)>>
              ELSE NatText(n \div 10) \o <<DigitChar(n % 10)>>

\* the digits of r / den for 0 <= r < den, den a power of ten
RECURSIVE FracText(_, _)
FracText(r, den) ==
    IF den = 1 THEN <<>>
    ELSE <<DigitChar(r \div (den \div 10))>> \o FracText(r % (den \div 10), den \div 10)

Abs(n) == IF n < 0 THEN -n ELSE n

\* json.dumps of a float: float.__repr__, or NaN, Infinity, -Infinity
json_dumps_float(v) ==
    CASE v.kind = "nan" -> <<"N", "a", "N">>
      [] v.kind = "inf" ->
            (IF v.num < 0 THEN <<"-">> ELSE <<>>)
            \o <<"I", "n", "f", "i", "n", "i", "t", "y">>
      [] OTHER ->
            (IF v.num < 0 THEN <<"-">> ELSE <<>>)
            \o NatText(Abs(v.num) \div v.den)
            \o <<".">>
            \o (IF v.den = 1 THEN <<"0">> ELSE FracText(Abs(v.num) % v.den, v.den))

\* json.loads of a number token; the three constants are case-sensitive
json_loads_float(t) ==
    CASE t = <<"N", "a", "N">> -> NaN
      [] t = <<"I", "n", "f", "i", "n", "i", "t", "y">> -> Inf(1)
      [] t = <<"-", "I", "n", "f", "i", "n", "i", "t", "y">> -> Inf(-1)
      [] OTHER -> float(t)

Quote == "\""
Backslash == "\\"

EscapeChar(c) ==
    CASE c = Quote -> <<Backslash, Quote>>
      [] c = Backslash -> <<Backslash, Backslash>>
      [] c = "\n" -> <<Backslash, "n">>
      [] c = "\t" -> <<Backslash, "t">>
      [] c = "\r" -> <<Backslash, "r">>
      [] OTHER -> <<c>>

RECURSIVE Escape(_)
Escape(s) == IF s = <<>> THEN <<>> ELSE EscapeChar(Head(s)) \o Escape(Tail(s))

UnescapeChar(c) ==
    CASE c = "n" -> "\n" [] c = "t" -> "\t" [] c = "r" -> "\r" [] OTHER -> c

RECURSIVE Unescape(_)
Unescape(s) ==
    IF s = <<>> THEN <<>>
    ELSE IF Head(s) = Backslash /\ Len(s) > 1
         THEN <<UnescapeChar(s[2])>> \o Unescape(Tail(Tail(s)))
         ELSE <<Head(s)>> \o Unescape(Tail(s))

json_dumps_str(s) == <<Quote>> \o Escape(s) \o <<Quote>>
json_loads_str(t) == Unescape(SubSeq(t, 2, Len(t) - 1))

\* json.dumps(json_output): the two members of the object, encoded
json_dumps(obj) ==
    [relevance_score |-> json_dumps_float(obj.relevance_score),
     answer          |-> json_dumps_str(obj.answer)]

(***************************************************************************)
(* The values of result["answer"]: a plain str or a FinalOutputModel.      *)
(***************************************************************************)
Str(text) == [type |-> "str", text |-> text]

\* FinalOutputModel(relevance_score: float, answer: str): pydantic accepts
\* every float (NaN and the infinities included) and every str (the empty
\* one included), the fields carrying no constraint
FinalOutputModel(relevance_score, answer) ==
    [type |-> "FinalOutputModel", relevance_score |-> relevance_score,
     answer |-> answer]

IsFloat(v) == v.kind \in {"fin", "nan", "inf"}
IsStr(v) == \A i \in 1..Len(v) : v[i] \in STRING

\* the validation of FinalOutputModel's two fields
Validates(obj) == IsFloat(obj.relevance_score) /\ IsStr(obj.answer)

\* parse_result with an answer field that refuses blank text
parse_result_nonblank(text) ==
    LET obj == [relevance_score |-> json_loads_float(text.relevance_score),
                answer          |-> json_loads_str(text.answer)]
    IN  IF Validates(obj) /\ ~IsBlank(obj.answer)
        THEN Returned(FinalOutputModel(obj.relevance_score, obj.answer))
        ELSE Raised("OutputParserException")

\* pydantic_parser.parse_result([Generation(text=...)]): the object of the
\* JSON text as a FinalOutputModel, OutputParserException when the
\* validation fails
parse_result(text) ==
    LET obj == [relevance_score |-> json_loads_float(text.relevance_score),
                answer          |-> json_loads_str(text.answer)]
    IN  IF Validates(obj)
        THEN Returned(FinalOutputModel(obj.relevance_score, obj.answer))
        ELSE Raised("OutputParserException")

format_json_output(x) ==
    parse_result(json_dumps([relevance_score |-> extract_relevance_score(x.relevance_score),
                             answer          |-> x.answer]))

\* the literal 4 of conditional_answer
Threshold == 4

DeclineMessage ==
    <<"I", " ", "d", "o", "n", "'", "t", " ", "k", "n", "o", "w",
      " ", "d", "u", "e", " ", "t", "o", " ", "n", "o", " ", "r",
      "e", "l", "e", "v", "a", "n", "t", " ", "c", "o", "n", "t",
      "e", "n", "t", " ", "f", "o", "u", "n", "d", ".">>

\* the branch of conditional_answer's if
GateDeclines(relevance_score) == Lt(relevance_score, Fin(Threshold, 1))

\* conditional_answer with the draft answer handed back on the low branch
conditional_answer_draft(x) ==
    IF GateDeclines(extract_relevance_score(x.relevance_score))
    THEN Returned(Str(x.answer))
    ELSE format_json_output(x)

\* conditional_answer without its if
conditional_answer_ungated(x) == format_json_output(x)

conditional_answer(x) ==
    IF GateDeclines(extract_relevance_score(x.relevance_score))
    THEN Returned(Str(DeclineMessage))
    ELSE format_json_output(x)

(***************************************************************************)
(* EnsembleRetriever(retrievers=[dense, sparse], weights=[0.5, 0.5], c=0): *)
(* weighted reciprocal rank fusion.  Scores are exact fractions [n, d];    *)
(* for ranks up to the retrievers' k = 5 the float sums order and tie      *)
(* exactly as the fractions do.                                            *)
(***************************************************************************)
Frac(n, d) == [n |-> n, d |-> d]
FZero == Frac(0, 1)
FAdd(a, b) == Frac(a.n * b.d + b.n * a.d, a.d * b.d)
FDiv(a, k) == Frac(a.n, a.d * k)
FLt(a, b) == a.n * b.d < b.n * a.d
FEq(a, b) == a.n * b.d = b.n * a.d

\* weights=[0.5, 0.5]
EnsembleWeights == <<Frac(1, 2), Frac(1, 2)>>
\* c=0
RankConstant == 0
\* k=5 of each retriever
RetrieverK == 5
\* k=10 of the ensemble, a keyword EnsembleRetriever has no field for
EnsembleK == 10

Document(page_content, origin) == [page_content |-> page_content, origin |-> origin]

\* the share of one list in rrf_score[key]: weight / (rank + c) at each
\* rank (counted from 1) where the list holds the key
RECURSIVE ListScore(_, _, _, _)
ListScore(doc_list, weight, key, rank) ==
    IF rank > Len(doc_list) THEN FZero
    ELSE FAdd(IF doc_list[rank].page_content = key
              THEN FDiv(weight, rank + RankConstant) ELSE FZero,
              ListScore(doc_list, weight, key, rank + 1))

RECURSIVE ScoreFrom(_, _, _, _)
ScoreFrom(doc_lists, weights, key, i) ==
    IF i > Len(doc_lists) THEN FZero
    ELSE FAdd(ListScore(doc_lists[i], weights[i], key, 1),
              ScoreFrom(doc_lists, weights, key, i + 1))

rrf_score(doc_lists, weights, key) == ScoreFrom(doc_lists, weights, key, 1)

\* a chain that reads the first list only
ChainFirst(doc_lists) == IF doc_lists = <<>> THEN <<>> ELSE Head(doc_lists)

RECURSIVE Chain(_)
Chain(doc_lists) ==
    IF doc_lists = <<>> THEN <<>> ELSE Head(doc_lists) \o Chain(Tail(doc_lists))

\* unique_by_key: the first document of each page_content, in order
RECURSIVE UniqueFrom(_, _)
UniqueFrom(docs, seen) ==
    IF docs = <<>> THEN <<>>
    ELSE IF Head(docs).page_content \in seen
         THEN UniqueFrom(Tail(docs), seen)
         ELSE <<Head(docs)>> \o UniqueFrom(Tail(docs), seen \cup {Head(docs).page_content})

\* unique_by_key that lets every document through
unique_by_key_all(docs) == docs

unique_by_key(docs) == UniqueFrom(docs, {})

\* a descending sort that turns equal scores around
SortedPosUnstable(docs, score, j) ==
    1 + Cardinality({m \in 1..Len(docs) :
            \/ FLt(score[docs[j].page_content], score[docs[m].page_content])
            \/ /\ FEq(score[docs[j].page_content], score[docs[m].page_content])
               /\ m > j})

\* sorted(docs, reverse=True, key=score): descending and stable, so equal
\* scores keep the order they came in
SortedPos(docs, score, j) ==
    1 + Cardinality({m \in 1..Len(docs) :
            \/ FLt(score[docs[j].page_content], score[docs[m].page_content])
            \/ /\ FEq(score[docs[j].page_content], score[docs[m].page_content])
               /\ m < j})

sorted_reverse(docs, score) ==
    [i \in 1..Len(docs) |->
        docs[CHOOSE j \in 1..Len(docs) : SortedPos(docs, score, j) = i]]

weighted_reciprocal_rank(doc_lists, weights) ==
    LET all_docs == Chain(doc_lists)
        keys     == {all_docs[i].page_content : i \in 1..Len(all_docs)}
        score    == [key \in keys |-> rrf_score(doc_lists, weights, key)]
    IN  sorted_reverse(unique_by_key(all_docs), score)

\* "\n\n".join(doc.page_content for doc in docs); a passage's content is
\* one symbol of the text
RECURSIVE format_docs(_)
format_docs(docs) ==
    IF docs = <<>> THEN <<>>
    ELSE IF Len(docs) = 1 THEN <<docs[1].page_content>>
    ELSE <<docs[1].page_content, "\n", "\n">> \o format_docs(Tail(docs))

(***************************************************************************)
(* The handler behind the user interface.                                  *)
(***************************************************************************)
\* process_user_input after rag_chain.invoke returned result
process_user_input(res) ==
    IF res.answer.type = "FinalOutputModel"
    THEN Returned([relevance_score |-> res.answer.relevance_score,
                   final_answer    |-> res.answer.answer])
    ELSE IF IsFloatText(res.relevance_score)
         THEN Returned([relevance_score |-> float(res.relevance_score),
                        final_answer    |-> res.answer.text])
         ELSE Raised("ValueError")

(***************************************************************************)
(* The collaborators: what each does when it is invoked.                   *)
(***************************************************************************)
Questions == {"q1", "q2"}
Passages == {"p1", "p2", "p3", "p4"}
PipePassages == {"p1", "p2"}

Min(a, b) == IF a < b THEN a ELSE b

\* the results a retriever can give: at most k distinct chunks, best first
DocLists(origin, passages, n) ==
    {[i \in 1..Len(l) |-> Document(l[i], origin)] :
        l \in {t \in BoundedText(passages, Min(n, RetrieverK)) :
                  \A i, j \in 1..Len(t) : i # j => t[i] # t[j]}}

Fails == [ok |-> FALSE, value |-> <<>>]
Gives(value) == [ok |-> TRUE, value |-> value]

RetrieverBehaviours(origin) ==
    {Gives(l) : l \in DocLists(origin, PipePassages, MaxPipeDocs)} \cup {Fails}

JudgmentReplies ==
    {<<"5">>, <<"4">>, <<"1">>, <<"3", ".", "9", "9", "9">>,
     <<"f", "i", "v", "e">>, <<>>, <<"n", "a", "n">>, <<"4", " ", "5">>}

GenerationReplies ==
    {<<>>, <<" ">>, <<"o", "k">>, <<"a", Quote, "\n">>}

LlmBehaviours(replies) == {Gives(t) : t \in replies} \cup {Fails}

(***************************************************************************)
(* One invocation: process_user_input(question) running rag_chain.         *)
(***************************************************************************)
envVars == <<question, dense, sparse, judgment, generation>>
unitVars == <<arg, ret>>

\* no prompt formatted yet
NoRequest == [template |-> None, question |-> None, context |-> <<>>]

Idle ==
    /\ denseDocs = <<>> /\ sparseDocs = <<>> /\ context = <<>>
    /\ relReq = NoRequest /\ ansReq = NoRequest /\ relOut = <<>> /\ ansOut = <<>>
    /\ relPc = "waiting" /\ ansPc = "waiting" /\ order = <<>>
    /\ calls = [dense |-> 0, sparse |-> 0, judgment |-> 0, generation |-> 0]
    /\ branch = None /\ result = Pending /\ ui = Pending

Init ==
    /\ pc = "idle"
    /\ question \in Questions
    /\ dense \in RetrieverBehaviours("dense")
    /\ sparse \in RetrieverBehaviours("sparse")
    /\ judgment \in LlmBehaviours(JudgmentReplies)
    /\ generation \in LlmBehaviours(GenerationReplies)
    /\ Idle
    /\ arg = None /\ ret = None

\* process_user_input calls rag_chain.invoke(question)
Invoke ==
    /\ pc = "idle"
    /\ pc' = "dense"
    /\ UNCHANGED <<envVars, unitVars, denseDocs, sparseDocs, context, relReq,
                   ansReq, relOut, ansOut, relPc, ansPc, order, calls, branch,
                   result, ui>>

\* DenseInvoke with the retriever's exception swallowed into no documents
DenseInvokeSwallow ==
    /\ pc = "dense"
    /\ calls' = [calls EXCEPT !.dense = @ + 1]
    /\ denseDocs' = dense.value
    /\ pc' = "sparse"
    /\ UNCHANGED <<envVars, unitVars, sparseDocs, context, relReq, ansReq,
                   relOut, ansOut, relPc, ansPc, order, branch, result, ui>>

\* DenseInvoke with one more try after a failure of the retriever
DenseInvokeRetry ==
    /\ pc = "dense"
    /\ calls' = [calls EXCEPT !.dense = @ + 1]
    /\ IF dense.ok
       THEN /\ denseDocs' = dense.value
            /\ pc' = "sparse"
            /\ UNCHANGED result
       ELSE IF calls.dense = 0
       THEN /\ UNCHANGED <<pc, denseDocs, result>>
       ELSE /\ result' = Raised("RetrievalError")
            /\ pc' = "chain_raised"
            /\ UNCHANGED denseDocs
    /\ UNCHANGED <<envVars, unitVars, sparseDocs, context, relReq, ansReq,
                   relOut, ansOut, relPc, ansPc, order, branch, ui>>

\* the ensemble invokes its retrievers one after the other, dense first;
\* an exception of a retriever leaves the chain
DenseInvoke ==
    /\ pc = "dense"
    /\ calls' = [calls EXCEPT !.dense = @ + 1]
    /\ IF dense.ok
       THEN /\ denseDocs' = dense.value
            /\ pc' = "sparse"
            /\ UNCHANGED result
       ELSE /\ result' = Raised("RetrievalError")
            /\ pc' = "chain_raised"
            /\ UNCHANGED denseDocs
    /\ UNCHANGED <<envVars, unitVars, sparseDocs, context, relReq, ansReq,
                   relOut, ansOut, relPc, ansPc, order, branch, ui>>

SparseInvoke ==
    /\ pc = "sparse"
    /\ calls' = [calls EXCEPT !.sparse = @ + 1]
    /\ IF sparse.ok
       THEN /\ sparseDocs' = sparse.value
            /\ pc' = "fuse"
            /\ UNCHANGED result
       ELSE /\ result' = Raised("RetrievalError")
            /\ pc' = "chain_raised"
            /\ UNCHANGED sparseDocs
    /\ UNCHANGED <<envVars, unitVars, denseDocs, context, relReq, ansReq,
                   relOut, ansOut, relPc, ansPc, order, branch, ui>>

\* x["context"] = the fused documents
Fuse ==
    /\ pc = "fuse"
    /\ context' = weighted_reciprocal_rank(<<denseDocs, sparseDocs>>, EnsembleWeights)
    /\ pc' = "format"
    /\ UNCHANGED <<envVars, unitVars, denseDocs, sparseDocs, relReq, ansReq,
                   relOut, ansOut, relPc, ansPc, order, calls, branch, result, ui>>

\* RunnablePassthrough.assign(context=format_docs(x["context"])), then the
\* RunnableParallel hands x to both of its branches
FormatContext ==
    /\ pc = "format"
    /\ context' = format_docs(context)
    /\ pc' = "parallel"
    /\ relPc' = "ready"
    /\ ansPc' = "ready"
    /\ UNCHANGED <<envVars, unitVars, denseDocs, sparseDocs, relReq, ansReq,
                   relOut, ansOut, order, calls, branch, result, ui>>

\* what a branch is given: x
BranchInput == [question |-> question, context |-> context]

\* the relevance branch formats relevance_prompt_template and calls the llm
RelevanceCall ==
    /\ pc = "parallel" /\ relPc = "ready"
    /\ relReq' = [template |-> "relevance_prompt_template",
                  question |-> BranchInput.question,
                  context  |-> BranchInput.context]
    /\ calls' = [calls EXCEPT !.judgment = @ + 1]
    /\ relPc' = "called"
    /\ UNCHANGED <<envVars, unitVars, pc, denseDocs, sparseDocs, context, ansReq,
                   relOut, ansOut, ansPc, order, branch, result, ui>>

\* the llm answers (str_output_parser gives its text) or raises
RelevanceReturn ==
    /\ pc = "parallel" /\ relPc = "called"
    /\ IF judgment.ok
       THEN /\ relOut' = judgment.value
            /\ relPc' = "returned"
       ELSE /\ relPc' = "raised"
            /\ UNCHANGED relOut
    /\ order' = Append(order, "relevance_score")
    /\ UNCHANGED <<envVars, unitVars, pc, denseDocs, sparseDocs, context, relReq,
                   ansReq, ansOut, ansPc, calls, branch, result, ui>>

\* the answer branch formats the hub prompt and calls the llm
AnswerCall ==
    /\ pc = "parallel" /\ ansPc = "ready"
    /\ ansReq' = [template |-> "prompt",
                  question |-> BranchInput.question,
                  context  |-> BranchInput.context]
    /\ calls' = [calls EXCEPT !.generation = @ + 1]
    /\ ansPc' = "called"
    /\ UNCHANGED <<envVars, unitVars, pc, denseDocs, sparseDocs, context, relReq,
                   relOut, ansOut, relPc, order, branch, result, ui>>

AnswerReturn ==
    /\ pc = "parallel" /\ ansPc = "called"
    /\ IF generation.ok
       THEN /\ ansOut' = generation.value
            /\ ansPc' = "returned"
       ELSE /\ ansPc' = "raised"
            /\ UNCHANGED ansOut
    /\ order' = Append(order, "answer")
    /\ UNCHANGED <<envVars, unitVars, pc, denseDocs, sparseDocs, context, relReq,
                   ansReq, relOut, relPc, calls, branch, result, ui>>

Finished(p) == p \in {"returned", "raised"}

\* a join that waits for one branch only
BranchesJoinedEither == Finished(relPc) \/ Finished(ansPc)

\* the RunnableParallel collects both futures; an exception of a branch
\* leaves the chain once both branches are over
BranchesJoined == Finished(relPc) /\ Finished(ansPc)

Join ==
    /\ pc = "parallel"
    /\ BranchesJoined
    /\ IF relPc = "raised" \/ ansPc = "raised"
       THEN /\ result' = Raised("ModelError")
            /\ pc' = "chain_raised"
       ELSE /\ pc' = "gate"
            /\ UNCHANGED result
    /\ UNCHANGED <<envVars, unitVars, denseDocs, sparseDocs, context, relReq,
                   ansReq, relOut, ansOut, relPc, ansPc, order, calls, branch, ui>>

\* RunnablePassthrough().assign(answer=conditional_answer): x with its
\* answer replaced
assign_answer(x) ==
    LET answer == conditional_answer(x)
    IN  IF answer.status = "returned"
        THEN Returned([relevance_score |-> x.relevance_score, answer |-> answer.value])
        ELSE answer

ParallelOutput == [relevance_score |-> relOut, answer |-> ansOut]

ConditionalAnswer ==
    /\ pc = "gate"
    /\ branch' = IF GateDeclines(extract_relevance_score(ParallelOutput.relevance_score))
                 THEN "declined" ELSE "proceeded"
    /\ result' = assign_answer(ParallelOutput)
    /\ pc' = IF assign_answer(ParallelOutput).status = "returned"
             THEN "chain_returned" ELSE "chain_raised"
    /\ UNCHANGED <<envVars, unitVars, denseDocs, sparseDocs, context, relReq,
                   ansReq, relOut, ansOut, relPc, ansPc, order, calls, ui>>

\* process_user_input reads the relevance score and the answer off the
\* result; an exception of the chain passes through it
Handler ==
    /\ pc \in {"chain_returned", "chain_raised"}
    /\ ui' = IF result.status = "returned"
             THEN process_user_input(result.value)
             ELSE result
    /\ pc' = "done"
    /\ UNCHANGED <<envVars, unitVars, denseDocs, sparseDocs, context, relReq,
                   ansReq, relOut, ansOut, relPc, ansPc, order, calls, branch,
                   result>>

Next ==
    \/ Invoke
    \/ DenseInvoke
    \/ SparseInvoke
    \/ Fuse
    \/ FormatContext
    \/ RelevanceCall
    \/ RelevanceReturn
    \/ AnswerCall
    \/ AnswerReturn
    \/ Join
    \/ ConditionalAnswer
    \/ Handler

Spec == Init /\ [][Next]_vars

(***************************************************************************)
(* Properties of an invocation.                                            *)
(***************************************************************************)
ChainReturned == result.status = "returned"
GateReached == pc \in {"gate", "chain_returned", "done"} /\ relPc = "returned"
                  /\ ansPc = "returned"
Four == Fin(4, 1)

\* C1: whenever the score extracted from the judgment text is below 4, the
\* chain returns the judgment text with the fixed "no relevant content
\* found" message as its answer, whatever the generation model returned,
\* and the draft answer is no part of what is returned.
C1_LowScoreDeclines ==
    (ChainReturned /\ Lt(extract_relevance_score(relOut), Four)) =>
        /\ result.value = [relevance_score |-> relOut, answer |-> Str(DeclineMessage)]
        /\ result.value.answer.text # ansOut
        /\ ui.status = "returned" => ui.value.final_answer = DeclineMessage

C1_Witness ==
    /\ pc = "done" /\ ChainReturned
    /\ relOut = <<"1">> /\ ansOut = <<"o", "k">>
    /\ result.value.answer = Str(DeclineMessage)

C3_MalformedJudgmentDeclines ==
    (pc = "done" /\ GateReached /\ ~IsFloatText(relOut)) =>
        /\ result.status = "returned"
        /\ result.value.answer = Str(DeclineMessage)
        /\ ui.status = "returned"
        /\ ui.value = [relevance_score |-> Zero, final_answer |-> DeclineMessage]

\* C6: once a retriever has been invoked and has failed, the chain has
\* raised the retrieval error, the handler passes it on, nothing was fused,
\* no result is returned, and neither model is ever called.
RetrieverFailed ==
    \/ calls.dense > 0 /\ ~dense.ok
    \/ calls.sparse > 0 /\ ~sparse.ok

C6_RetrievalFailureSurfaces ==
    RetrieverFailed =>
        /\ result.status = "raised" /\ result.value = "RetrievalError"
        /\ pc \in {"chain_raised", "done"}
        /\ pc = "done" => ui.status = "raised" /\ ui.value = "RetrievalError"
        /\ calls.judgment = 0 /\ calls.generation = 0
        /\ relPc = "waiting" /\ ansPc = "waiting" /\ branch = None

C6_Witness ==
    /\ pc = "done" /\ dense.ok /\ ~sparse.ok /\ calls.sparse = 1
    /\ ui.status = "raised" /\ ui.value = "RetrievalError"

C8_ParallelCalls ==
    /\ (relPc # "waiting" \/ ansPc # "waiting") =>
          /\ pc \in {"parallel", "gate", "chain_returned", "chain_raised", "done"}
          /\ context = format_docs(weighted_reciprocal_rank(<<denseDocs, sparseDocs>>,
                                                            EnsembleWeights))
    /\ relPc \notin {"waiting", "ready"} =>
          relReq.question = question /\ relReq.context = context
    /\ ansPc \notin {"waiting", "ready"} =>
          ansReq.question = question /\ ansReq.context = context
    /\ (pc = "gate" \/ branch # None) =>
          /\ relPc = "returned" /\ ansPc = "returned"
          /\ Len(order) = 2
    /\ ChainReturned =>
          result = assign_answer([relevance_score |-> judgment.value,
                                  answer |-> generation.value])

C8_Witness ==
    /\ pc = "done" /\ order = <<"answer", "relevance_score">>
    /\ ChainReturned /\ branch = "proceeded"
    /\ relReq.context = <<"p1", "\n", "\n", "p2">>
    /\ ansReq.context = relReq.context

(***************************************************************************)
(* The score extraction and the gate on their own: one call of            *)
(* extract_relevance_score, or of conditional_answer, on each judgment     *)
(* text of bounded length, and on the texts named in the documentation.    *)
(***************************************************************************)
ScoreExamples ==
    {<<"f", "i", "v", "e">>, <<" ", " ", "3", ".", "5", " ", "\n">>,
     <<"3", ".", "9", "9", "9">>, <<"4", ".", "0">>, <<"i", "n", "f">>,
     <<"4", " ", "o", "u", "t", " ", "o", "f", " ", "5">>}

ScoreInputs == BoundedText(Chars, MaxLen) \cup ScoreExamples

\* the draft answer the gate is called with
DraftAnswer == <<"o", "k">>

InitScore ==
    /\ pc = "unit"
    /\ arg \in ScoreInputs
    /\ ret = None
    /\ question = None /\ dense = None /\ sparse = None
    /\ judgment = None /\ generation = None
    /\ Idle

ExtractCall ==
    /\ pc = "unit"
    /\ ret' = extract_relevance_score(arg)
    /\ pc' = "extracted"
    /\ UNCHANGED <<envVars, arg, denseDocs, sparseDocs, context, relReq, ansReq,
                   relOut, ansOut, relPc, ansPc, order, calls, branch, result, ui>>

ConditionalAnswerCall ==
    /\ pc = "unit"
    /\ ret' = conditional_answer([relevance_score |-> arg, answer |-> DraftAnswer])
    /\ pc' = "gated"
    /\ UNCHANGED <<envVars, arg, denseDocs, sparseDocs, context, relReq, ansReq,
                   relOut, ansOut, relPc, ansPc, order, calls, branch, result, ui>>

NextScore ==
    \/ ExtractCall
    \/ ConditionalAnswerCall

SpecScore == InitScore /\ [][NextScore]_vars

\* C4: the gate proceeds exactly when the extracted score is at or above
\* the threshold 4: a score equal to 4 proceeds, every score below it
\* declines, and the decision is made for every score the extractor gives.
Proceeds(outcome) ==
    outcome.status = "returned" /\ outcome.value.type = "FinalOutputModel"

C4_ProceedIffAtLeastThreshold ==
    pc = "gated" =>
        /\ ret.status = "returned"
        /\ Proceeds(ret) <=> Ge(extract_relevance_score(arg), Four)

\* C5: extract_relevance_score gives a number for every text: the parsed
\* value when the stripped text is a numeric token, and 0.0 for every other
\* text, so that the score is always a defined number.
IsNumericToken(text) ==
    IsFloatText(text) /\ ~IsNanWord(Unsigned(strip(text)))

C5_ExtractTotal ==
    pc = "extracted" =>
        /\ ret.kind # "nan"
        /\ IsNumericToken(arg) => ret = float(arg)
        /\ ~IsNumericToken(arg) => ret = Zero

(***************************************************************************)
(* The fusion on its own: one call of weighted_reciprocal_rank on each     *)
(* pair of retriever results of bounded length, under the notebook's       *)
(* weights and under other non-negative weights.                           *)
(***************************************************************************)
WeightPairs ==
    {EnsembleWeights, <<Frac(0, 1), Frac(1, 2)>>, <<Frac(1, 1), Frac(0, 1)>>,
     <<Frac(1, 1), Frac(1, 2)>>, <<Frac(0, 1), Frac(0, 1)>>}

InitFuse ==
    /\ pc = "unit"
    /\ arg \in [semantic : DocLists("dense", Passages, MaxDocs),
                lexical  : DocLists("sparse", Passages, MaxDocs),
                weights  : WeightPairs]
    /\ ret = None
    /\ question = None /\ dense = None /\ sparse = None
    /\ judgment = None /\ generation = None
    /\ Idle

FuseCall ==
    /\ pc = "unit"
    /\ ret' = weighted_reciprocal_rank(<<arg.semantic, arg.lexical>>, arg.weights)
    /\ pc' = "fused"
    /\ UNCHANGED <<envVars, arg, denseDocs, sparseDocs, context, relReq, ansReq,
                   relOut, ansOut, relPc, ansPc, order, calls, branch, result, ui>>

NextFuse == FuseCall

SpecFuse == InitFuse /\ [][NextFuse]_vars

\* the places (from 1) of a text in a list, and its first place (0: absent)
Places(list, text) == {i \in 1..Len(list) : list[i].page_content = text}
Place(list, text) ==
    IF Places(list, text) = {} THEN 0
    ELSE CHOOSE i \in Places(list, text) : \A j \in Places(list, text) : i <= j

Texts(list) == {list[i].page_content : i \in 1..Len(list)}
InBoth(text) == text \in Texts(arg.semantic) /\ text \in Texts(arg.lexical)

\* the fusion score of the documentation: weight * 1 / (rank + 1), rank
\* from 0, summed over the lists that hold the text
FusionScore(text) ==
    FAdd(IF Place(arg.semantic, text) = 0 THEN FZero
         ELSE FDiv(arg.weights[1], Place(arg.semantic, text)),
         IF Place(arg.lexical, text) = 0 THEN FZero
         ELSE FDiv(arg.weights[2], Place(arg.lexical, text)))

\* C9 as stated, at the notebook's weights: a text held by both lists is
\* once in the fused result, at or above the better of its two places.
C9_AtOrAboveBestPlace ==
    (pc = "fused" /\ arg.weights = EnsembleWeights) =>
        \A text \in Passages : InBoth(text) =>
            /\ Cardinality(Places(ret, text)) = 1
            /\ Place(ret, text) <= Min(Place(arg.semantic, text), Place(arg.lexical, text))

\* C9 as the code has it: a text held by both lists is once in the fused
\* result, and every text placed before it there is placed before it in
\* the semantic or in the lexical list; so its index (from 0) is at most
\* the sum of its two source indexes, not the smaller of them.
C9_OnceAndBelowOnlyItsBetters ==
    pc = "fused" =>
        \A text \in Passages : InBoth(text) =>
            /\ Cardinality(Places(ret, text)) = 1
            /\ \A i \in 1..(Place(ret, text) - 1) :
                  LET other == ret[i].page_content
                  IN  \/ /\ Place(arg.semantic, other) > 0
                         /\ Place(arg.semantic, other) < Place(arg.semantic, text)
                      \/ /\ Place(arg.lexical, other) > 0
                         /\ Place(arg.lexical, other) < Place(arg.lexical, text)
            /\ Place(ret, text) - 1
                  <= (Place(arg.semantic, text) - 1) + (Place(arg.lexical, text) - 1)

C9_Witness ==
    /\ pc = "fused" /\ arg.weights = EnsembleWeights
    /\ [i \in 1..Len(arg.semantic) |-> arg.semantic[i].page_content] = <<"p1", "p4">>
    /\ [i \in 1..Len(arg.lexical) |-> arg.lexical[i].page_content] = <<"p2", "p3", "p4">>
    /\ [i \in 1..Len(ret) |-> ret[i].page_content] = <<"p1", "p2", "p4", "p3">>

\* the sum of a text's places in the lists that hold it
CombinedRank(text) == Place(arg.semantic, text) + Place(arg.lexical, text)

NoRepeats(list) ==
    \A i, j \in 1..Len(list) : i # j => list[i].page_content # list[j].page_content

FirstSeen(text) ==
    IF Place(arg.semantic, text) > 0 THEN Place(arg.semantic, text)
    ELSE Len(arg.semantic) + Place(arg.lexical, text)

Swapped(weights) == <<weights[2], weights[1]>>

C11_OneSidedFusionSymmetric ==
    pc = "fused" =>
        /\ arg.semantic = <<>> =>
              ret = weighted_reciprocal_rank(<<arg.lexical, <<>>>>, Swapped(arg.weights))
        /\ arg.lexical = <<>> =>
              ret = weighted_reciprocal_rank(<<<<>>, arg.semantic>>, Swapped(arg.weights))

C11_Witness ==
    /\ pc = "fused" /\ arg.semantic = <<>>
    /\ arg.weights = <<Frac(1, 1), Frac(1, 2)>>
    /\ [i \in 1..Len(arg.lexical) |-> arg.lexical[i].page_content] = <<"p3", "p1", "p2">>
    /\ ret = arg.lexical
    /\ ret = weighted_reciprocal_rank(<<arg.lexical, <<>>>>, Swapped(arg.weights))

(***************************************************************************)
(* The invocation under its scheduling: invoke is synchronous and the      *)
(* thread pool runs both branches, so a step that can be taken is taken;   *)
(* every collaborator call returns or raises.                              *)
(***************************************************************************)
\* every step of Next moves one of these positions
posVars == <<pc, relPc, ansPc>>

\* the steps up to the gate
Run ==
    \/ Invoke \/ DenseInvoke \/ SparseInvoke \/ Fuse \/ FormatContext
    \/ RelevanceCall \/ RelevanceReturn \/ AnswerCall \/ AnswerReturn
    \/ Join

\* ConditionalAnswer and Handler seen on the positions: each is the one
\* step at its position, and it can always be taken there
Resolve ==
    /\ \/ pc = "gate" /\ pc' \in {"chain_returned", "chain_raised"}
       \/ pc \in {"chain_returned", "chain_raised"} /\ pc' = "done"
    /\ UNCHANGED <<relPc, ansPc>>

SpecFair == Init /\ [][Next]_vars /\ WF_posVars(Run) /\ WF_posVars(Resolve)

\* the steps in their order: retrieve (1, 2), fuse (3, 4), dual-evaluate
\* (5), gate and resolve (6), the chain over (7), the handler over (8)
StageOf(p) ==
    CASE p = "idle" -> 0 [] p = "dense" -> 1 [] p = "sparse" -> 2
      [] p = "fuse" -> 3 [] p = "format" -> 4 [] p = "parallel" -> 5
      [] p = "gate" -> 6 [] p = "chain_returned" -> 7 [] p = "chain_raised" -> 7
      [] p = "done" -> 8

\* the terminal outcome of the chain
Outcome ==
    IF result.status = "returned"
    THEN IF result.value.answer.type = "FinalOutputModel" THEN "Answered" ELSE "Declined"
    ELSE IF result.value = "OutputParserException" THEN "InvalidOutputError"
    ELSE result.value

AtMostOneCallEach ==
    /\ calls.dense <= 1 /\ calls.sparse <= 1
    /\ calls.judgment <= 1 /\ calls.generation <= 1

LinearStep ==
    /\ StageOf(pc') >= StageOf(pc)
    /\ pc' # pc =>
          \/ StageOf(pc') = StageOf(pc) + 1
          \/ pc' = "chain_raised" /\ result.status = "pending" /\ result'.status = "raised"
    /\ pc' = pc => pc = "parallel"
    /\ result.status # "pending" => result' = result /\ calls' = calls
    /\ (result.status = "pending" /\ result'.status = "raised") => pc' = "chain_raised"
    /\ branch' # branch => pc = "gate" /\ result'.status # "pending"

====
